---- MODULE Spec2Model ----
(***************************************************************************)
(* sonicconv: SonicArranger packed format converter (src/Amiga/sonicconv.c) *)
(*                                                                         *)
(* The converter is one sequential run: convert() loads the input file,    *)
(* findsong() scans it for the song anchor, convert() resolves the eight   *)
(* section offsets, joins the instrument table into the per-sample info    *)
(* and writes the SOAR container.  The run is modelled as a state machine  *)
(* over the program counter pc.  Memory is a sequence of bytes; a long is  *)
(* 32 bits, big-endian, two's complement (SAS/C on the 68k).  A buffer     *)
(* offset x stands for the C pointer dat + x.                              *)
(***************************************************************************)
EXTENDS Integers, Sequences, FiniteSets, TLC

\* ------------------------------------------------------------------ bounds
\* Longest junk prefix before the module inside the input file, in words.
MaxPrefix == 1
\* Largest number of instrument records in a modelled module.
MaxInstr == 2
\* Largest sample count stored in a modelled module.
MaxSamples == 2
\* Number of 2-byte scan positions of the buffers of SpecLocator.
MaxScan == 6
\* Longest run of bytes an overrunning fwrite is modelled to get out.
MaxOverrun == 1

\* ------------------------------------------------- constants of the source
\* 0x28: the size of the offset block, and the first relative offset.
HdrSize == 40
\* 0x400: the exclusive upper limit of the second relative offset.
SigLimit == 1024
\* offset < f_in_size - 28 in convert().
FoundMargin == 28
\* Record sizes: the divisors of the element counts.
SongRec == 12
OverRec == 16
NoteRec == 4
InstrRec == 152
SynthRec == 128
\* i_offset += 0x98
InstrStride == 152
\* dat + i_offset + 0x7a
NameOff == 122
\* fwrite(name_from_instr, 1, 30, f_out)
NameLen == 30
\* sizeof(sample_info): four 32-bit fields.
InfoSize == 16

\* ------------------------------------------------------------ byte helpers
Min32 == -2147483647 - 1
Max32 == 2147483646 + 1

\* The signed 32-bit value of four big-endian bytes: *((long *) p).
LongOf(b) ==
    (IF b[1] >= 128 THEN b[1] - 256 ELSE b[1]) * 16777216
        + b[2] * 65536 + b[3] * 256 + b[4]

\* The four big-endian bytes of a signed 32-bit value: fwrite(&v, 1, 4, f).
BytesOfNat(u) ==
    << u \div 16777216, (u \div 65536) % 256, (u \div 256) % 256, u % 256 >>

BytesOfLong(v) ==
    IF v >= 0 THEN BytesOfNat(v)
    ELSE [k \in 1..4 |-> 255 - BytesOfNat(-(v + 1))[k]]

\* The two big-endian bytes of an unsigned short.
BytesOfShort(u) == << (u \div 256) % 256, u % 256 >>

\* 32-bit addition of longs, wrapping as the 68k does.
Add32(a, b) ==
    IF a > 0 /\ b > 0 /\ a > Max32 - b THEN (a + Min32) + (b + Min32)
    ELSE IF a < 0 /\ b < 0 /\ a < Min32 - b THEN (a - Min32) + (b - Min32)
    ELSE a + b

\* CDiv that rounds a positive quotient up.
CDiv_RoundUp(a, b) == IF a >= 0 THEN (a + b - 1) \div b ELSE -((-a) \div b)

\* C's integer division of longs (the 68k DIVS truncates toward zero).
CDiv(a, b) == IF a >= 0 THEN a \div b ELSE -((-a) \div b)

\* (short) of an unsigned short: instr_sample_id = *((unsigned short *) p).
ShortOf(u) == IF u >= 32768 THEN u - 65536 ELSE u

Fill(n, b) == [k \in 1..n |-> b]

RECURSIVE Concat(_)
Concat(ss) == IF ss = << >> THEN << >> ELSE Head(ss) \o Concat(Tail(ss))

RECURSIVE SumSeq(_)
SumSeq(s) == IF s = << >> THEN 0 ELSE Head(s) + SumSeq(Tail(s))

\* s with the bytes of p written over it from 0-based position at.
Place(s, at, p) ==
    [k \in 1..Len(s) |->
        IF k > at /\ k <= at + Len(p) THEN p[k - at] ELSE s[k]]

\* ------------------------------------------------------------------ state
Sections == {"song", "over", "note", "instr", "wave", "adsr", "amf", "sample"}

VARIABLES
    file,          \* the bytes of the input file in_name
    wild,          \* the byte held by memory the run never initialised
    f_in_size,     \* st.st_size
    read_len,      \* what fread() returned
    dat,           \* the malloc(f_in_size) buffer
    pc,            \* the statement the run is at
    fs_offset,     \* findsong's loop variable offset
    offset,        \* convert's offset: what findsong returned
    sec_offset,    \* song_offset .. sample_offset
    sec_len,       \* song_len .. amf_len, sample_len
    sec_cnt,       \* song_cnt .. amf_cnt, sample_cnt
    samples_info,  \* (*samples_info)[i] is samples_info[i + 1]
    i,             \* the loop variable i
    i_offset,      \* the instrument record the join loop is at
    f_out,         \* the output stream: "none", "open", "closed"
    out,           \* the bytes written to out_name
    mark,          \* where in out each tagged block was started
    reported,      \* the "Inconsistent sample id" lines printed: <<id, i>>
    msg            \* the diagnostic that ended the run

vars == << file, wild, f_in_size, read_len, dat, pc, fs_offset, offset,
           sec_offset, sec_len, sec_cnt, samples_info, i, i_offset,
           f_out, out, mark, reported, msg >>

\* --------------------------------------------------------------- memory
\* Memory the run did not initialise (the unread tail of dat, whatever lies
\* around the buffer, address 0) holds bytes the program does not control;
\* a run sees one such content, the byte wild.
WildBytes == {0, 255}

InBuf(a, n) == a >= 0 /\ a + n <= Len(dat)

\* The byte at dat + a.
MemByte(a) == IF a >= 0 /\ a < Len(dat) THEN dat[a + 1] ELSE wild

\* *((long *)(dat + a))
LongAt(a) == LongOf([k \in 1..4 |-> MemByte(a + k - 1)])

\* *((unsigned short *)(dat + a))
UShortAt(a) == MemByte(a) * 256 + MemByte(a + 1)

\* The n bytes fwrite(dat + a, 1, n, f) takes from memory.
BytesAt(a, n) == [k \in 1..n |-> MemByte(a + k - 1)]

\* A char * into the buffer, or NULL.
NULL == [null |-> TRUE, off |-> 0]
Ptr(a) == [null |-> FALSE, off |-> a]

\* One zeroed sample_info: memset(samples_info, 0, samples_info_size).
ZeroInfo ==
    [length |-> 0, length_from_instr |-> 0, repeat_from_instr |-> 0,
     name_from_instr |-> NULL]

ZeroSec == [s \in Sections |-> 0]

\* ----------------------------------------------------------- input files
\* A packed module: the 0x28-byte offset block (eight relative offsets and
\* eight more bytes), then the song, overview, note, instrument, wave,
\* ADSR and AMF sections, then the sample section (count, lengths, payload).

\* An instrument record: discriminant, sample id, length, repeat, name.
\* Record j carries a length with the top bit set, and a name of its own.
InstrRecord(kind, j) ==
    BytesOfShort(kind.disc) \o BytesOfShort((kind.id + 65536) % 65536)
        \o BytesOfShort(32769 + j) \o BytesOfShort(16 + j)
        \o Fill(NameOff - 8, 0) \o Fill(NameLen, 65 + j)

InstrKinds ==
    { [disc |-> 0, id |-> 0], [disc |-> 0, id |-> 1],
      [disc |-> 0, id |-> -1], [disc |-> 1, id |-> 0] }

InstrTables ==
    UNION { [1..n -> InstrKinds] : n \in 0..MaxInstr }

InstrTable(kinds) ==
    Concat([j \in 1..Len(kinds) |-> InstrRecord(kinds[j], j - 1)])

\* Sample k (from 1) is 4 * k bytes long.
SampleSection(cnt) ==
    BytesOfLong(cnt)
        \o Concat([k \in 1..cnt |-> BytesOfLong(4 * k)])
        \o Concat([k \in 1..cnt |-> Fill(4 * k, 135 + k)])

BaseLayout ==
    [song |-> 12, over |-> 16, note |-> 4, pad |-> 0,
     wave |-> 0, adsr |-> 0, amf |-> 0]

\* Lengths that are no multiples of the record sizes, synth tables present.
RichLayout ==
    [song |-> 26, over |-> 20, note |-> 8, pad |-> 6,
     wave |-> 128, adsr |-> 130, amf |-> 0]

Layouts == {BaseLayout, RichLayout}

\* A damaged offset block: entry k (from 1) is off by d.
TamperBy == 2 * 200
NoTamper == [k |-> 0, d |-> 0]
Tampers ==
    {NoTamper} \cup { [k |-> k, d |-> d] : k \in 2..7, d \in {-TamperBy, TamperBy} }

RelOffsets(lay, n) ==
    LET l == << lay.song, lay.over, lay.note, InstrRec * n + lay.pad,
                lay.wave, lay.adsr, lay.amf >>
    IN  [k \in 1..8 |-> HdrSize + SumSeq(SubSeq(l, 1, k - 1))]

ModuleBytes(lay, t, kinds, cnt) ==
    LET rel == RelOffsets(lay, Len(kinds))
    IN  Concat([k \in 1..8 |->
                    BytesOfLong(rel[k] + (IF k = t.k THEN t.d ELSE 0))])
            \o Fill(HdrSize - 32, 0)
            \o Fill(lay.song, 17) \o Fill(lay.over, 34) \o Fill(lay.note, 51)
            \o InstrTable(kinds) \o Fill(lay.pad, 68)
            \o Fill(lay.wave, 85) \o Fill(lay.adsr, 102) \o Fill(lay.amf, 119)
            \o SampleSection(cnt)

OneSampled == << [disc |-> 0, id |-> 0] >>

\* Well-formed modules behind a junk prefix: every instrument table.
JoinFiles ==
    { Fill(p, 0) \o ModuleBytes(BaseLayout, NoTamper, kinds, cnt) :
        p \in {0, 2 * MaxPrefix}, kinds \in InstrTables, cnt \in 0..MaxSamples }

\* Every layout, with the offset block intact and damaged.
LayoutFiles ==
    { Fill(p, 0) \o ModuleBytes(lay, t, OneSampled, 1) :
        p \in {0, 2 * MaxPrefix}, lay \in Layouts, t \in Tampers }

\* Files cut short: none, less than an offset block, just more than one.
CutFiles ==
    { SubSeq(ModuleBytes(BaseLayout, NoTamper, OneSampled, 1), 1, n) :
        n \in {0, HdrSize - 1, HdrSize, HdrSize + 1, HdrSize + 2} }

\* A module at an odd offset, which the scan of even offsets passes over.
OddFiles ==
    { Fill(2 * MaxPrefix + 1, 0)
        \o ModuleBytes(BaseLayout, NoTamper, OneSampled, 1) }

InputFiles == JoinFiles \cup LayoutFiles \cup CutFiles \cup OddFiles

\* What fread() may return for a file of n bytes.
ReadLens(n) == {n, n \div 2} \cup (IF n >= 4 THEN {n - 4} ELSE {})

\* ---------------------------------------------------------------- convert
Init ==
    /\ file \in InputFiles
    /\ wild \in WildBytes
    /\ f_in_size = 0
    /\ read_len = 0
    /\ dat = << >>
    /\ pc = "stat"
    /\ fs_offset = 0
    /\ offset = 0
    /\ sec_offset = ZeroSec
    /\ sec_len = ZeroSec
    /\ sec_cnt = ZeroSec
    /\ samples_info = << >>
    /\ i = 0
    /\ i_offset = 0
    /\ f_out = "none"
    /\ out = << >>
    /\ mark = << >>
    /\ reported = << >>
    /\ msg = "none"

\* rc = stat(in_name, &st); f_in_size = st.st_size.  A failed stat is only
\* printed, and st is then not initialised.
Stat ==
    /\ pc = "stat"
    /\ \/ f_in_size' = Len(file)
       \/ f_in_size' \in {0, Len(file)}
    /\ pc' = "fopen"
    /\ UNCHANGED << file, wild, read_len, dat, fs_offset, offset, sec_offset,
                    sec_len, sec_cnt, samples_info, i, i_offset, f_out, out,
                    mark, reported, msg >>

\* f_in = fopen(in_name, "rb") fails: return -1.
OpenFail ==
    /\ pc = "fopen"
    /\ pc' = "done"
    /\ msg' = "cannot_open_input"
    /\ UNCHANGED << file, wild, f_in_size, read_len, dat, fs_offset, offset,
                    sec_offset, sec_len, sec_cnt, samples_info, i, i_offset,
                    f_out, out, mark, reported >>

\* dat = malloc(f_in_size); read_len = fread(dat, 1, f_in_size, f_in).
\* A short read is only printed; the rest of dat stays uninitialised.
\* Then findsong(dat, f_in_size) is entered.
Load ==
    /\ pc = "fopen"
    /\ \E n \in ReadLens(f_in_size) :
          /\ read_len' = n
          /\ dat' = [k \in 1..f_in_size |-> IF k <= n THEN file[k] ELSE wild]
    /\ fs_offset' = 0
    /\ pc' = "findsong"
    /\ UNCHANGED << file, wild, f_in_size, offset, sec_offset, sec_len,
                    sec_cnt, samples_info, i, i_offset, f_out, out, mark,
                    reported, msg >>

\* dat = malloc(f_in_size) is not checked: with no memory, fread() and
\* findsong() go through a null pointer.
LoadNoMem ==
    /\ pc = "fopen"
    /\ pc' = "crash"
    /\ UNCHANGED << file, wild, f_in_size, read_len, dat, fs_offset, offset,
                    sec_offset, sec_len, sec_cnt, samples_info, i, i_offset,
                    f_out, out, mark, reported, msg >>

\* --------------------------------------------------------------- findsong
\* SigMatch without the upper limit on the second offset.
SigMatch_NoLimit(p1, p2) == p1 = HdrSize /\ p2 > p1

\* *p1 == 0x28 && *p2 > *p1 && *p2 < 0x400
SigMatch(p1, p2) == p1 = HdrSize /\ p2 > p1 /\ p2 < SigLimit

\* max_offset = size - 0x28
max_offset == f_in_size - HdrSize

\* offset += 2
ScanStep(o) == o + 2

\* One turn of the loop that does not return.
FindSongStep ==
    /\ pc = "findsong"
    /\ fs_offset < max_offset
    /\ ~SigMatch(LongAt(fs_offset), LongAt(fs_offset + 4))
    /\ fs_offset' = ScanStep(fs_offset)
    /\ UNCHANGED << file, wild, f_in_size, read_len, dat, pc, offset,
                    sec_offset, sec_len, sec_cnt, samples_info, i, i_offset,
                    f_out, out, mark, reported, msg >>

\* return offset, or return -1 after the loop: offset = findsong(...).
FindSongReturn ==
    /\ pc = "findsong"
    /\ \/ /\ fs_offset < max_offset
          /\ SigMatch(LongAt(fs_offset), LongAt(fs_offset + 4))
          /\ offset' = fs_offset
       \/ /\ ~(fs_offset < max_offset)
          /\ offset' = -1
    /\ pc' = "check"
    /\ UNCHANGED << file, wild, f_in_size, read_len, dat, fs_offset,
                    sec_offset, sec_len, sec_cnt, samples_info, i, i_offset,
                    f_out, out, mark, reported, msg >>

\* findsong alone, on buffers that hold up to two candidate signatures at
\* even and odd places, inside and beyond the scanned range.
LocLens ==
    { HdrSize - 1, HdrSize, HdrSize + 1, HdrSize + 2,
      HdrSize + 2 * MaxScan, HdrSize + 2 * MaxScan + 1 }

LocFirsts == {HdrSize, HdrSize + 1}
LocSeconds == {HdrSize, HdrSize + 1, SigLimit - 1, SigLimit, -1}
LocPatterns ==
    { BytesOfLong(a) \o BytesOfLong(b) : a \in LocFirsts, b \in LocSeconds }

LocBuffers ==
    { Place(Place(Fill(n, 0), a, pa), b, BytesOfLong(HdrSize) \o BytesOfLong(HdrSize + 1)) :
        n \in LocLens, a \in 0..(2 * MaxScan + 1), pa \in LocPatterns,
        b \in 0..(2 * MaxScan + 1) }

InitLocator ==
    /\ file \in LocBuffers
    /\ wild \in WildBytes
    /\ f_in_size = Len(file)
    /\ read_len = Len(file)
    /\ dat = file
    /\ pc = "findsong"
    /\ fs_offset = 0
    /\ offset = 0
    /\ sec_offset = ZeroSec
    /\ sec_len = ZeroSec
    /\ sec_cnt = ZeroSec
    /\ samples_info = << >>
    /\ i = 0
    /\ i_offset = 0
    /\ f_out = "none"
    /\ out = << >>
    /\ mark = << >>
    /\ reported = << >>
    /\ msg = "none"

NextLocator == FindSongStep \/ FindSongReturn

SpecLocator == InitLocator /\ [][NextLocator]_vars

\* ------------------------------------------------------- layout resolver
Sub32(a, b) ==
    IF b = Min32 THEN Add32(Add32(a, Max32), 1) ELSE Add32(a, -b)

\* SongFound without the test for findsong's -1.
SongFound_NoSign == offset < f_in_size - FoundMargin

\* if(offset >= 0 && offset < f_in_size - 28) ... else "Song not found".
SongFound == offset >= 0 /\ offset < f_in_size - FoundMargin

CheckOffset ==
    /\ pc = "check"
    /\ IF SongFound
       THEN pc' = "resolve" /\ msg' = msg
       ELSE pc' = "done" /\ msg' = "song_not_found"
    /\ UNCHANGED << file, wild, f_in_size, read_len, dat, fs_offset, offset,
                    sec_offset, sec_len, sec_cnt, samples_info, i, i_offset,
                    f_out, out, mark, reported >>

\* song_offset = offset + *((long *)(dat + offset)); ... + 28.
Offsets(o) ==
    [song   |-> Add32(o, LongAt(o)),
     over   |-> Add32(o, LongAt(o + 4)),
     note   |-> Add32(o, LongAt(o + 8)),
     instr  |-> Add32(o, LongAt(o + 12)),
     wave   |-> Add32(o, LongAt(o + 16)),
     adsr   |-> Add32(o, LongAt(o + 20)),
     amf    |-> Add32(o, LongAt(o + 24)),
     sample |-> Add32(o, LongAt(o + 28))]

\* song_len = over_offset - song_offset; ... amf_len.  sample_len is set
\* later, by the loop over the sample lengths.
Lengths(off) ==
    [song   |-> Sub32(off.over, off.song),
     over   |-> Sub32(off.note, off.over),
     note   |-> Sub32(off.instr, off.note),
     instr  |-> Sub32(off.wave, off.instr),
     wave   |-> Sub32(off.adsr, off.wave),
     adsr   |-> Sub32(off.amf, off.adsr),
     amf    |-> Sub32(off.sample, off.amf),
     sample |-> 0]

\* song_cnt = song_len / 12; ... sample_cnt = *((long *)(dat + sample_offset)).
Counts(off, len) ==
    [song   |-> CDiv(len.song, SongRec),
     over   |-> CDiv(len.over, OverRec),
     note   |-> CDiv(len.note, NoteRec),
     instr  |-> CDiv(len.instr, InstrRec),
     wave   |-> CDiv(len.wave, SynthRec),
     adsr   |-> CDiv(len.adsr, SynthRec),
     amf    |-> CDiv(len.amf, SynthRec),
     sample |-> LongAt(off.sample)]

Resolve ==
    /\ pc = "resolve"
    /\ sec_offset' = Offsets(offset)
    /\ sec_len' = Lengths(sec_offset')
    /\ sec_cnt' = Counts(sec_offset', sec_len')
    /\ pc' = "alloc"
    /\ UNCHANGED << file, wild, f_in_size, read_len, dat, fs_offset, offset,
                    samples_info, i, i_offset, f_out, out, mark, reported,
                    msg >>

\* ------------------------------------------------------- metadata joiner
\* samples_info_size = sample_cnt * sizeof(sample_info)
samples_info_size == sec_cnt.sample * InfoSize

\* samples_info = malloc(samples_info_size); memset(samples_info, 0, ...);
\* sample_len = 0.  A negative size is a huge size_t, which no malloc gives.
Alloc ==
    /\ pc = "alloc"
    /\ samples_info_size >= 0
    /\ samples_info' = [k \in 1..sec_cnt.sample |-> ZeroInfo]
    /\ sec_len' = [sec_len EXCEPT !.sample = 0]
    /\ i' = 0
    /\ pc' = "lengths"
    /\ UNCHANGED << file, wild, f_in_size, read_len, dat, fs_offset, offset,
                    sec_offset, sec_cnt, i_offset, f_out, out, mark,
                    reported, msg >>

\* samples_info == NULL: "Cannot allocate memory for samples info!".
AllocFail ==
    /\ pc = "alloc"
    /\ pc' = "done"
    /\ msg' = "no_memory"
    /\ UNCHANGED << file, wild, f_in_size, read_len, dat, fs_offset, offset,
                    sec_offset, sec_len, sec_cnt, samples_info, i, i_offset,
                    f_out, out, mark, reported >>

\* s_len = *((long *)(dat + sample_offset + 4 + i * 4)); sample_len += s_len;
\* (*samples_info)[i].length = s_len.
ReadSampleLen ==
    /\ pc = "lengths"
    /\ i < sec_cnt.sample
    /\ LET s_len == LongAt(sec_offset.sample + 4 + i * 4)
       IN  /\ sec_len' = [sec_len EXCEPT !.sample = Add32(@, s_len)]
           /\ samples_info' = [samples_info EXCEPT ![i + 1].length = s_len]
    /\ i' = i + 1
    /\ UNCHANGED << file, wild, f_in_size, read_len, dat, pc, fs_offset,
                    offset, sec_offset, sec_cnt, i_offset, f_out, out, mark,
                    reported, msg >>

\* i_offset = instr_offset; i = 0.
EndSampleLens ==
    /\ pc = "lengths"
    /\ ~(i < sec_cnt.sample)
    /\ i_offset' = sec_offset.instr
    /\ i' = 0
    /\ pc' = "join"
    /\ UNCHANGED << file, wild, f_in_size, read_len, dat, fs_offset, offset,
                    sec_offset, sec_len, sec_cnt, samples_info, f_out, out,
                    mark, reported, msg >>

\* *((unsigned short *)(dat + i_offset)) == 0
IsSampled(rec) == UShortAt(rec) = 0

\* ValidSampleId with the upper limit off by one.
ValidSampleId_OffByOne(id) == id >= 0 /\ id <= sec_cnt.sample

\* instr_sample_id >= 0 && instr_sample_id < sample_cnt
ValidSampleId(id) == id >= 0 /\ id < sec_cnt.sample

\* Joined that keeps what an earlier record has set.
Joined_FirstWins(info, rec) ==
    IF ~info.name_from_instr.null THEN info
    ELSE [info EXCEPT !.length_from_instr = UShortAt(rec + 4),
                      !.repeat_from_instr = UShortAt(rec + 6),
                      !.name_from_instr = Ptr(rec + NameOff)]

\* The three assignments into (*samples_info)[instr_sample_id].
Joined(info, rec) ==
    [info EXCEPT !.length_from_instr = UShortAt(rec + 4),
                 !.repeat_from_instr = UShortAt(rec + 6),
                 !.name_from_instr = Ptr(rec + NameOff)]

\* One instrument record of the loop "Gather info for samples".
JoinInstr ==
    /\ pc = "join"
    /\ i < sec_cnt.instr
    /\ LET instr_sample_id == ShortOf(UShortAt(i_offset + 2))
       IN  IF IsSampled(i_offset)
           THEN IF ValidSampleId(instr_sample_id)
                THEN /\ samples_info' =
                            [samples_info EXCEPT ![instr_sample_id + 1] =
                                Joined(@, i_offset)]
                     /\ reported' = reported
                ELSE /\ reported' = Append(reported, << instr_sample_id, i >>)
                     /\ samples_info' = samples_info
           ELSE UNCHANGED << samples_info, reported >>
    /\ i_offset' = i_offset + InstrStride
    /\ i' = i + 1
    /\ UNCHANGED << file, wild, f_in_size, read_len, dat, pc, fs_offset,
                    offset, sec_offset, sec_len, sec_cnt, f_out, out, mark,
                    msg >>

EndJoin ==
    /\ pc = "join"
    /\ ~(i < sec_cnt.instr)
    /\ pc' = "fopen_out"
    /\ UNCHANGED << file, wild, f_in_size, read_len, dat, fs_offset, offset,
                    sec_offset, sec_len, sec_cnt, samples_info, i, i_offset,
                    f_out, out, mark, reported, msg >>

\* ------------------------------------------------------------------ writer
SOAR_ID == << 83, 79, 65, 82, 86, 49, 46, 48 >>
STBL_ID == << 83, 84, 66, 76 >>
OVTB_ID == << 79, 86, 84, 66 >>
NTBL_ID == << 78, 84, 66, 76 >>
INST_ID == << 73, 78, 83, 84 >>
SD8B_ID == << 83, 68, 56, 66 >>
SYWT_ID == << 83, 89, 87, 84 >>
SYAR_ID == << 83, 89, 65, 82 >>
SYAF_ID == << 83, 89, 65, 70 >>
EDAT_ID == << 69, 68, 65, 84, 86, 49, 46, 49 >>
EDAT_DATA == << 0, 1, 0, 1, 0, 0, 0, 123, 0, 0, 0, 0, 0, 1, 0, 3 >>

\* f_out = fopen(out_name, "wb")
OpenOut ==
    /\ pc = "fopen_out"
    /\ f_out' = "open"
    /\ pc' = "w_soar"
    /\ UNCHANGED << file, wild, f_in_size, read_len, dat, fs_offset, offset,
                    sec_offset, sec_len, sec_cnt, samples_info, i, i_offset,
                    out, mark, reported, msg >>

\* f_out == 0: "Cannot open file"; free(samples_info); free(dat); return 0.
OpenOutFail ==
    /\ pc = "fopen_out"
    /\ pc' = "done"
    /\ msg' = "cannot_open_output"
    /\ UNCHANGED << file, wild, f_in_size, read_len, dat, fs_offset, offset,
                    sec_offset, sec_len, sec_cnt, samples_info, i, i_offset,
                    f_out, out, mark, reported >>

\* What fwrite(dat + a, 1, n, f_out) puts out.  A negative n is a huge
\* size_t: the copy runs from dat + a on until something stops it.
Copied(a, n) ==
    IF n >= 0 THEN {BytesAt(a, n)} ELSE { BytesAt(a, k) : k \in 0..MaxOverrun }

\* fwrite(SOAR_ID, 1, 8, f_out)
WriteSoar ==
    /\ pc = "w_soar"
    /\ out' = out \o SOAR_ID
    /\ mark' = Append(mark, Len(out))
    /\ pc' = "w_stbl"
    /\ UNCHANGED << file, wild, f_in_size, read_len, dat, fs_offset, offset,
                    sec_offset, sec_len, sec_cnt, samples_info, i, i_offset,
                    f_out, reported, msg >>

\* fwrite(tag, 1, 4, f_out); fwrite(&cnt, 1, 4, f_out);
\* fwrite(dat + offset, 1, len, f_out).
WriteTable(at, tag, s, next) ==
    /\ pc = at
    /\ \E body \in Copied(sec_offset[s], sec_len[s]) :
          out' = out \o tag \o BytesOfLong(sec_cnt[s]) \o body
    /\ mark' = Append(mark, Len(out))
    /\ pc' = next
    /\ UNCHANGED << file, wild, f_in_size, read_len, dat, fs_offset, offset,
                    sec_offset, sec_len, sec_cnt, samples_info, i, i_offset,
                    f_out, reported, msg >>

WriteStbl == WriteTable("w_stbl", STBL_ID, "song", "w_ovtb")
WriteOvtb == WriteTable("w_ovtb", OVTB_ID, "over", "w_ntbl")
WriteNtbl == WriteTable("w_ntbl", NTBL_ID, "note", "w_inst")
WriteInst == WriteTable("w_inst", INST_ID, "instr", "w_sd8b")

\* fwrite(SD8B_ID, 1, 4, f_out); fwrite(&sample_cnt, 1, 4, f_out).
WriteSd8b ==
    /\ pc = "w_sd8b"
    /\ out' = out \o SD8B_ID \o BytesOfLong(sec_cnt.sample)
    /\ mark' = Append(mark, Len(out))
    /\ pc' = "w_len_from_instr"
    /\ UNCHANGED << file, wild, f_in_size, read_len, dat, fs_offset, offset,
                    sec_offset, sec_len, sec_cnt, samples_info, i, i_offset,
                    f_out, reported, msg >>

\* A loop that writes one long of every sample_info.
WriteField(at, field, next) ==
    /\ pc = at
    /\ out' = out \o Concat([k \in 1..Len(samples_info) |->
                                BytesOfLong(samples_info[k][field])])
    /\ i' = IF sec_cnt.sample > 0 THEN sec_cnt.sample ELSE 0
    /\ pc' = next
    /\ UNCHANGED << file, wild, f_in_size, read_len, dat, fs_offset, offset,
                    sec_offset, sec_len, sec_cnt, samples_info, i_offset,
                    f_out, mark, reported, msg >>

WriteLenFromInstr ==
    WriteField("w_len_from_instr", "length_from_instr", "w_repeat")

WriteRepeat == WriteField("w_repeat", "repeat_from_instr", "w_name")

\* The 30 bytes fwrite((*samples_info)[i].name_from_instr, 1, 30, f_out)
\* reads: through a null pointer, whatever lies at address 0.
NameBytes(p) ==
    IF p.null THEN Fill(NameLen, wild) ELSE BytesAt(p.off, NameLen)

\* for(i = 0; ...): the loop over the names is entered.
BeginNames ==
    /\ pc = "w_name"
    /\ i' = 0
    /\ pc' = "w_name_i"
    /\ UNCHANGED << file, wild, f_in_size, read_len, dat, fs_offset, offset,
                    sec_offset, sec_len, sec_cnt, samples_info, i_offset,
                    f_out, out, mark, reported, msg >>

WriteName ==
    /\ pc = "w_name_i"
    /\ i < sec_cnt.sample
    /\ out' = out \o NameBytes(samples_info[i + 1].name_from_instr)
    /\ i' = i + 1
    /\ UNCHANGED << file, wild, f_in_size, read_len, dat, pc, fs_offset,
                    offset, sec_offset, sec_len, sec_cnt, samples_info,
                    i_offset, f_out, mark, reported, msg >>

EndNames ==
    /\ pc = "w_name_i"
    /\ ~(i < sec_cnt.sample)
    /\ pc' = "w_length"
    /\ UNCHANGED << file, wild, f_in_size, read_len, dat, fs_offset, offset,
                    sec_offset, sec_len, sec_cnt, samples_info, i, i_offset,
                    f_out, out, mark, reported, msg >>

WriteLength == WriteField("w_length", "length", "w_payload")

\* dat + sample_offset + 4 + sample_cnt * 4
PayloadAt == sec_offset.sample + 4 + sec_cnt.sample * 4

\* fwrite(dat + sample_offset + 4 + sample_cnt * 4, 1, sample_len, f_out)
WritePayload ==
    /\ pc = "w_payload"
    /\ \E body \in Copied(PayloadAt, sec_len.sample) : out' = out \o body
    /\ pc' = "w_sywt"
    /\ UNCHANGED << file, wild, f_in_size, read_len, dat, fs_offset, offset,
                    sec_offset, sec_len, sec_cnt, samples_info, i, i_offset,
                    f_out, mark, reported, msg >>

\* WriteSywt with the tag of the block behind it.
WriteSywt_WrongTag == WriteTable("w_sywt", SYAR_ID, "wave", "w_syar")

WriteSywt == WriteTable("w_sywt", SYWT_ID, "wave", "w_syar")
WriteSyar == WriteTable("w_syar", SYAR_ID, "adsr", "w_syaf")
WriteSyaf == WriteTable("w_syaf", SYAF_ID, "amf", "w_edat")

\* fwrite(EDAT_ID, 1, 8, f_out); fwrite(EDAT_DATA, 1, 0x10, f_out)
WriteEdat ==
    /\ pc = "w_edat"
    /\ out' = out \o EDAT_ID \o EDAT_DATA
    /\ mark' = Append(mark, Len(out))
    /\ pc' = "fclose"
    /\ UNCHANGED << file, wild, f_in_size, read_len, dat, fs_offset, offset,
                    sec_offset, sec_len, sec_cnt, samples_info, i, i_offset,
                    f_out, reported, msg >>

\* fclose(f_out); "Conversion written to"; the frees; return 0.
Close ==
    /\ pc = "fclose"
    /\ f_out' = "closed"
    /\ msg' = "written"
    /\ pc' = "done"
    /\ UNCHANGED << file, wild, f_in_size, read_len, dat, fs_offset, offset,
                    sec_offset, sec_len, sec_cnt, samples_info, i, i_offset,
                    out, mark, reported >>

\* ------------------------------------------------------- undefined accesses
\* A long or short read through a cast pointer, outside dat or at an odd
\* address (an address error on the 68000).
BadRead(a, n) == ~InBuf(a, n) \/ a % 2 # 0

\* An fwrite whose source is not n bytes of dat.
BadCopy(a, n) == n < 0 \/ ~InBuf(a, n)

\* The statement the run is at reads memory that is not the program's.
Unsafe ==
    \/ pc = "resolve" /\ BadRead(Offsets(offset).sample, 4)
    \/ pc = "lengths" /\ i < sec_cnt.sample
                      /\ BadRead(sec_offset.sample + 4 + i * 4, 4)
    \/ pc = "join" /\ i < sec_cnt.instr /\ BadRead(i_offset, 8)
    \/ pc = "w_stbl" /\ BadCopy(sec_offset.song, sec_len.song)
    \/ pc = "w_ovtb" /\ BadCopy(sec_offset.over, sec_len.over)
    \/ pc = "w_ntbl" /\ BadCopy(sec_offset.note, sec_len.note)
    \/ pc = "w_inst" /\ BadCopy(sec_offset.instr, sec_len.instr)
    \/ pc = "w_name_i" /\ i < sec_cnt.sample
           /\ LET p == samples_info[i + 1].name_from_instr
              IN  p.null \/ ~InBuf(p.off, NameLen)
    \/ pc = "w_payload" /\ BadCopy(PayloadAt, sec_len.sample)
    \/ pc = "w_sywt" /\ BadCopy(sec_offset.wave, sec_len.wave)
    \/ pc = "w_syar" /\ BadCopy(sec_offset.adsr, sec_len.adsr)
    \/ pc = "w_syaf" /\ BadCopy(sec_offset.amf, sec_len.amf)

\* Such a statement may also end the run on the spot.
Fault ==
    /\ Unsafe
    /\ pc' = "crash"
    /\ UNCHANGED << file, wild, f_in_size, read_len, dat, fs_offset, offset,
                    sec_offset, sec_len, sec_cnt, samples_info, i, i_offset,
                    f_out, out, mark, reported, msg >>

Next ==
    \/ Stat \/ OpenFail \/ Load \/ LoadNoMem
    \/ FindSongStep \/ FindSongReturn \/ CheckOffset
    \/ Resolve \/ Alloc \/ AllocFail
    \/ ReadSampleLen \/ EndSampleLens \/ JoinInstr \/ EndJoin
    \/ OpenOut \/ OpenOutFail
    \/ WriteSoar \/ WriteStbl \/ WriteOvtb \/ WriteNtbl \/ WriteInst
    \/ WriteSd8b \/ WriteLenFromInstr \/ WriteRepeat
    \/ BeginNames \/ WriteName \/ EndNames
    \/ WriteLength \/ WritePayload
    \/ WriteSywt \/ WriteSyar \/ WriteSyaf \/ WriteEdat \/ Close
    \/ Fault

Spec == Init /\ [][Next]_vars

\* ================================================================ claims
\* The 32-bit value the buffer holds at offset o, read from dat alone.
ValueAt(o) ==
    (IF dat[o + 1] >= 128 THEN dat[o + 1] - 256 ELSE dat[o + 1]) * 16777216
        + dat[o + 2] * 65536 + dat[o + 3] * 256 + dat[o + 4]

\* The even offsets o, 0 <= o < length - 0x28, that carry the signature.
Qualifying ==
    { o \in 0..(Len(dat) - 41) :
        /\ o % 2 = 0
        /\ ValueAt(o) = 40
        /\ ValueAt(o + 4) > 40
        /\ ValueAt(o + 4) < 1024 }

\* C1: when findsong returns and some offset qualifies, it returns the
\* smallest even offset o, 0 <= o < length - 0x28, whose value is 0x28 and
\* whose next value lies strictly between 0x28 and 0x400; whatever offset it
\* returns other than -1 is such an offset, so never an odd or a later one.
C1_FirstQualifyingOffset ==
    pc = "check" =>
        /\ Qualifying # {} =>
              /\ offset \in Qualifying
              /\ \A o \in Qualifying : offset <= o
        /\ offset # -1 => offset \in Qualifying

\* findsong returned a match behind the start of the buffer although a
\* later offset qualifies too.
C1_Witness ==
    /\ pc = "check"
    /\ offset >= 2
    /\ \E o \in Qualifying : o > offset

\* C2: a buffer with no qualifying offset (any buffer shorter than 0x28
\* bytes among them) makes findsong return -1 and the run end with "Song
\* not found": the offsets are never resolved, no sample info is built, the
\* output file is never opened and nothing is written.
C2_NotFoundEndsRun ==
    Qualifying = {} =>
        /\ pc \in {"stat", "fopen", "findsong", "check", "done", "crash"}
        /\ pc = "check" => offset = -1
        /\ pc = "done" => msg \in {"song_not_found", "cannot_open_input"}
        /\ sec_offset = ZeroSec /\ sec_len = ZeroSec /\ sec_cnt = ZeroSec
        /\ samples_info = << >> /\ reported = << >>
        /\ f_out = "none" /\ out = << >> /\ mark = << >>

\* A buffer that starts with 0x28 and was scanned to its end without a
\* match: the run is over and reported the song as not found.
C2_Witness ==
    /\ pc = "done"
    /\ msg = "song_not_found"
    /\ Len(dat) > 48
    /\ ValueAt(0) = 40
    /\ fs_offset >= Len(dat) - 40

\* ------------------------------------------------------------ the output
\* The tags of the container, in the order the format wants them.
OrderedTags ==
    << << 83, 79, 65, 82, 86, 49, 46, 48 >>,
       << 83, 84, 66, 76 >>, << 79, 86, 84, 66 >>, << 78, 84, 66, 76 >>,
       << 73, 78, 83, 84 >>, << 83, 68, 56, 66 >>, << 83, 89, 87, 84 >>,
       << 83, 89, 65, 82 >>, << 83, 89, 65, 70 >>,
       << 69, 68, 65, 84, 86, 49, 46, 49 >> >>

\* The long written right behind the tag of block k.
CountOf(k) ==
    LET b == SubSeq(out, mark[k] + 5, mark[k] + 8)
    IN  (IF b[1] >= 128 THEN b[1] - 256 ELSE b[1]) * 16777216
            + b[2] * 65536 + b[3] * 256 + b[4]

\* The eight absolute offsets of the anchor at offset, read from dat alone.
AbsOffset(j) == offset + ValueAt(offset + 4 * (j - 1))

InOrder == \A j \in 1..7 : AbsOffset(j) <= AbsOffset(j + 1)

\* C3: as soon as one of the seven section lengths is negative the run
\* fails: the output is not opened and nothing is written, so no negative
\* length is ever a copy length.
C3_NegativeLengthRejected ==
    (\E s \in Sections \ {"sample"} : sec_len[s] < 0) =>
        f_out = "none" /\ out = << >>

\* C4: the blocks of the output start, in this order and each where the one
\* before it ended, with SOARV1.0 (at 0), STBL (at 8), OVTB, NTBL, INST,
\* SD8B, SYWT, SYAR, SYAF and EDATV1.1; a written output has all ten and
\* ends with EDATV1.1 and the fixed 16 bytes.
C4_OutputOrder ==
    /\ Len(mark) <= 10
    /\ \A k \in 1..Len(mark) :
          /\ mark[k] + Len(OrderedTags[k]) <= Len(out)
          /\ SubSeq(out, mark[k] + 1, mark[k] + Len(OrderedTags[k]))
                = OrderedTags[k]
          /\ k > 1 => mark[k - 1] + Len(OrderedTags[k - 1]) <= mark[k]
    /\ Len(mark) >= 1 => mark[1] = 0
    /\ Len(mark) >= 2 => mark[2] = 8
    /\ msg = "written" =>
          /\ Len(mark) = 10
          /\ Len(out) = mark[10] + 24
          /\ SubSeq(out, mark[10] + 9, mark[10] + 24)
                = << 0, 1, 0, 1, 0, 0, 0, 123, 0, 0, 0, 0, 0, 1, 0, 3 >>

\* A written output of a module behind a prefix, with samples.
C4_Witness ==
    /\ msg = "written"
    /\ offset > 0
    /\ sec_cnt.sample > 0
    /\ Len(out) > Len(dat)

\* C5: in a written output every plain section takes 8 bytes and its
\* byte_length, and the SD8B section takes 8 + (8 + 30 + 4) * sample_count
\* bytes and the sum of the raw lengths.
C5_SectionSizes ==
    msg = "written" =>
        /\ mark[3] - mark[2] = 8 + sec_len.song
        /\ mark[4] - mark[3] = 8 + sec_len.over
        /\ mark[5] - mark[4] = 8 + sec_len.note
        /\ mark[6] - mark[5] = 8 + sec_len.instr
        /\ mark[7] - mark[6] =
              8 + 8 * sec_cnt.sample + 30 * sec_cnt.sample
                + 4 * sec_cnt.sample
                + SumSeq([k \in 1..Len(samples_info) |->
                              samples_info[k].length])
        /\ mark[8] - mark[7] = 8 + sec_len.wave
        /\ mark[9] - mark[8] = 8 + sec_len.adsr
        /\ mark[10] - mark[9] = 8 + sec_len.amf

\* C8: for an anchor whose eight offsets are in order, the count behind
\* STBL, OVTB, NTBL, INST, SYWT, SYAR and SYAF is the distance to the next
\* section's offset divided by 12, 16, 4, 152, 128, 128 and 128, and the
\* count behind SD8B is the long stored at the sample section's offset.
C8_Counts ==
    (Len(mark) >= 2 /\ InOrder) =>
        /\ CountOf(2) = (AbsOffset(2) - AbsOffset(1)) \div 12
        /\ Len(mark) >= 3 => CountOf(3) = (AbsOffset(3) - AbsOffset(2)) \div 16
        /\ Len(mark) >= 4 => CountOf(4) = (AbsOffset(4) - AbsOffset(3)) \div 4
        /\ Len(mark) >= 5 => CountOf(5) = (AbsOffset(5) - AbsOffset(4)) \div 152
        /\ Len(mark) >= 6 =>
              CountOf(6) =
                  LET a == AbsOffset(8)
                      m(x) == IF x >= 0 /\ x < Len(dat) THEN dat[x + 1] ELSE wild
                  IN  (IF m(a) >= 128 THEN m(a) - 256 ELSE m(a)) * 16777216
                          + m(a + 1) * 65536 + m(a + 2) * 256 + m(a + 3)
        /\ Len(mark) >= 7 => CountOf(7) = (AbsOffset(6) - AbsOffset(5)) \div 128
        /\ Len(mark) >= 8 => CountOf(8) = (AbsOffset(7) - AbsOffset(6)) \div 128
        /\ Len(mark) >= 9 => CountOf(9) = (AbsOffset(8) - AbsOffset(7)) \div 128

\* A written output of an in-order module behind a prefix whose lengths are
\* no multiples of the record sizes and whose sample count is not zero.
C8_Witness ==
    /\ msg = "written"
    /\ InOrder
    /\ offset > 0
    /\ (AbsOffset(2) - AbsOffset(1)) % 12 # 0
    /\ CountOf(2) = 2
    /\ CountOf(6) = 1
    /\ CountOf(7) = 1
    /\ CountOf(8) = 1

\* C9: a read of fewer bytes than the declared size ends the run before
\* findsong scans anything: nothing is located, resolved, joined or written.
C9_ShortReadAborts ==
    (pc \notin {"stat", "fopen"} /\ msg # "cannot_open_input"
        /\ read_len # f_in_size) =>
        /\ fs_offset = 0
        /\ pc \in {"findsong", "done", "crash"}
        /\ sec_offset = ZeroSec /\ samples_info = << >>
        /\ f_out = "none" /\ out = << >>

\* C10: while the names are copied every sample has a name pointer to 30
\* bytes inside the buffer.
C10_NamesInsideBuffer ==
    pc = "w_name_i" =>
        \A k \in 1..Len(samples_info) :
            LET p == samples_info[k].name_from_instr
            IN  ~p.null /\ p.off >= 0 /\ p.off + 30 <= Len(dat)

\* ------------------------------------------------------ instrument records
\* The byte of memory at offset a, the unsigned and the signed short there.
ByteAt(a) == IF a >= 0 /\ a < Len(dat) THEN dat[a + 1] ELSE wild
WordAt(a) == ByteAt(a) * 256 + ByteAt(a + 1)
SignedWordAt(a) == IF WordAt(a) >= 32768 THEN WordAt(a) - 65536 ELSE WordAt(a)

\* Instrument record j (from 0) of the table the resolver found.
RecordAt(j) == sec_offset.instr + 152 * j
Records == 0..(sec_cnt.instr - 1)

\* The sampled-instrument records whose sample index is out of range.
Rejected ==
    { j \in Records :
        /\ WordAt(RecordAt(j)) = 0
        /\ ~(SignedWordAt(RecordAt(j) + 2) \in 0..(sec_cnt.sample - 1)) }

\* The sampled-instrument records that reference sample index k.
Referencing(k) ==
    { j \in Records :
        WordAt(RecordAt(j)) = 0 /\ SignedWordAt(RecordAt(j) + 2) = k }

\* The join loop is over and the run went on behind it.
JoinDone ==
    \/ pc \in { "fopen_out", "w_soar", "w_stbl", "w_ovtb", "w_ntbl", "w_inst",
                "w_sd8b", "w_len_from_instr", "w_repeat", "w_name",
                "w_name_i", "w_length", "w_payload", "w_sywt", "w_syar",
                "w_syaf", "w_edat", "fclose" }
    \/ pc = "done" /\ msg \in {"written", "cannot_open_output"}

\* The join loop is at a record that lies in the buffer, is a sampled
\* instrument and has a sample index outside [0, sample_count).
AtRejected ==
    /\ pc = "join"
    /\ i < sec_cnt.instr
    /\ i_offset >= 0 /\ i_offset + 152 <= Len(dat) /\ i_offset % 2 = 0
    /\ WordAt(i_offset) = 0
    /\ ~(SignedWordAt(i_offset + 2) \in 0..(sec_cnt.sample - 1))

RejectedStep ==
    AtRejected =>
        /\ samples_info' = samples_info
        /\ reported' = Append(reported, << SignedWordAt(i_offset + 2), i >>)
        /\ pc' = "join"
        /\ i' = i + 1
        /\ i_offset' = i_offset + 152

AllRejectedReported ==
    JoinDone =>
        /\ Len(reported) = Cardinality(Rejected)
        /\ { reported[n] : n \in 1..Len(reported) }
              = { << SignedWordAt(RecordAt(j) + 2), j >> : j \in Rejected }

\* C6: the step of the join loop at a sampled-instrument record with a
\* sample index outside [0, sample_count) leaves every sample info as it
\* was, reports the index and the record, and goes on to the next record;
\* once the loop is over every such record of the table has been reported.
C6_RejectedRecordSkipped == [][RejectedStep]_vars /\ []AllRejectedReported

\* The first record was rejected, the second one was joined into sample 0,
\* and the output was written.
C6_Witness ==
    /\ msg = "written"
    /\ Len(reported) = 1
    /\ reported[1] = << -1, 0 >>
    /\ sec_cnt.sample > 0
    /\ samples_info[1].name_from_instr = [null |-> FALSE, off |-> RecordAt(1) + 122]

SyntheticStep ==
    (pc = "join" /\ i < sec_cnt.instr /\ WordAt(i_offset) # 0) =>
        samples_info' = samples_info

LastReferenceWins ==
    JoinDone =>
        \A k \in 0..(sec_cnt.sample - 1) :
            LET e == samples_info[k + 1]
                refs == Referencing(k)
            IN  IF refs # {}
                THEN LET j == CHOOSE x \in refs : \A y \in refs : y <= x
                     IN  /\ e.length_from_instr = WordAt(RecordAt(j) + 4)
                         /\ e.repeat_from_instr = WordAt(RecordAt(j) + 6)
                         /\ e.name_from_instr =
                               [null |-> FALSE, off |-> RecordAt(j) + 122]
                ELSE /\ e.length_from_instr = 0
                     /\ e.repeat_from_instr = 0

\* C7: once the join loop is over, a sample index that sampled-instrument
\* records reference has the length, the repeat and the name pointer of the
\* last of them in the table; an index none references has length 0 and
\* repeat 0; a step at a record with a non-zero discriminant changes no
\* sample info.
C7_LastReferenceWins == []LastReferenceWins /\ [][SyntheticStep]_vars

\* Two sampled-instrument records reference sample 0, none references
\* sample 1, and the join is over.
C7_Witness ==
    /\ msg = "written"
    /\ sec_cnt.sample = 2
    /\ Cardinality(Referencing(0)) = 2
    /\ Referencing(1) = {}
    /\ samples_info[1].length_from_instr = 32770

====
